---- MODULE Spec2Model ----
(***************************************************************************)
(* Model of community/aqua/general/evolution.ipynb: a notebook of six code *)
(* cells run top to bottom by one kernel.  The state is the kernel's       *)
(* namespace (one variable per notebook name), the execution counter, the  *)
(* per-cell execution_count fields and the text written to stdout.         *)
(*                                                                         *)
(* Numbers: np.random.random draws floats in [0,1); a draw is modelled as  *)
(* a numerator k over the fixed denominator Resolution (k/Resolution).     *)
(* A state vector is a vector of numerators over one denominator.          *)
(* The results of the library's numerical routines (expm, the simulator,   *)
(* state_fidelity) are not computed: each is kept as the term that records *)
(* the routine and the arguments the notebook passed to it.                *)
(***************************************************************************)
EXTENDS Integers, Sequences, FiniteSets

\* ---- bounds of the model ----
Resolution == 2      \* draws of np.random.random are 0/Resolution .. (Resolution-1)/Resolution
MaxNonZero == 2      \* at most this many non-zero entries in the drawn matrix temp
VecScale   == 2      \* state vectors have numerators over a denominator <= VecScale

\* ---- literals of the notebook ----
NUM_QUBITS        == 2   \* num_qubits = 2
EVO_TIME          == 1   \* evo_time = 1
MATRIX_SLICES     == 0   \* qubitOp.evolve(state_in_vec, evo_time, 'matrix', 0)
CIRCUIT_SLICES    == 1   \* qubitOp.evolve(None, evo_time, 'circuit', 1, ...)
EXPANSION_ORDER   == 3   \* expansion_order=3
NumCodeCells      == 6   \* the notebook's code cells, execution_count 1..6

VARIABLES
    pc,                 \* index of the code cell the kernel runs next (Run All)
    run_state,          \* "running" | "finished" | "aborted" (a cell raised)
    execution_count,    \* the kernel's execution counter
    cell_count,         \* cell |-> its "execution_count" field (None before it ran)
    stdout,             \* the printed lines, in order
    num_qubits, evo_time, temp, h1, qubitOp, state_in,
    state_in_vec, groundtruth,
    groundtruth_evolution,
    quantum_registers, circuit,
    backend, job, circuit_execution_result

vars == << pc, run_state, execution_count, cell_count, stdout,
           num_qubits, evo_time, temp, h1, qubitOp, state_in,
           state_in_vec, groundtruth, groundtruth_evolution,
           quantum_registers, circuit, backend, job, circuit_execution_result >>

\* A name of the namespace is unbound (None) or bound to one value (Some(v)).
None == << >>
Some(v) == << v >>
Val(x) == x[1]
Bound(x) == x # None

\* ---- numpy / library helpers, as far as the notebook's own lines use them ----
RECURSIVE Pow2(_)
Pow2(n) == IF n = 0 THEN 1 ELSE 2 * Pow2(n - 1)

Idx(dim) == 0 .. (dim - 1)

\* (variant: the transpose forgotten, temp + temp)
TransposeDropped(m) == m

\* m.T
Transpose(m) == [i \in DOMAIN m |-> [j \in DOMAIN m |-> m[j][i]]]

\* a + b, elementwise
MatAdd(a, b) == [i \in DOMAIN a |-> [j \in DOMAIN a |-> a[i][j] + b[i][j]]]

\* m * t, a matrix times a scalar
MatScale(m, t) == [i \in DOMAIN m |-> [j \in DOMAIN m |-> m[i][j] * t]]

\* np.random.random((dim, dim)): every entry a draw in [0,1)
RandomMatrices(dim) ==
    LET Positions == Idx(dim) \X Idx(dim)
        Supports  == { P \in SUBSET Positions : Cardinality(P) <= MaxNonZero }
    IN  UNION { { [i \in Idx(dim) |-> [j \in Idx(dim) |->
                      IF <<i, j>> \in P THEN f[<<i, j>>] ELSE 0]]
                  : f \in [P -> 1 .. (Resolution - 1)] }
                : P \in Supports }

RECURSIVE SumSq(_, _)
SumSq(v, n) == IF n = 0 THEN 0 ELSE v[n - 1] * v[n - 1] + SumSq(v, n - 1)

\* the random normalized vectors of length dim: numerators num over den with
\* sum(num[i]^2) = den^2
RandomStates(dim) ==
    UNION { { [den |-> d, num |-> v] :
                v \in { w \in [Idx(dim) -> 0 .. d] : SumSq(w, dim) = d * d } }
            : d \in 1 .. VecScale }

RECURSIVE Log2(_)
Log2(n) == IF n <= 1 THEN 0 ELSE 1 + Log2(n \div 2)

\* Operator(matrix=m): keeps the matrix; num_qubits is log2 of its dimension
Operator(m) == [matrix |-> m, num_qubits |-> Log2(Cardinality(DOMAIN m))]

\* Custom(n, state='random') holding the vector it drew
Custom(n, v) == [num_qubits |-> n, state_vector |-> v]

\* expm(-1.j * g) @ v, kept as a term
ExpmMatVec(g, v) == [routine |-> "expm_matvec", generator |-> g, vec |-> v]

\* the line  groundtruth = expm(-1.j * h1 * evo_time) @ state_in_vec
GroundTruth(h, t, v) == ExpmMatVec(MatScale(h, t), v)

\* qubitOp.evolve(v, t, 'matrix', 0): "the same matrix and vector multiplication"
EvolveMatrix(op, v, t, slices) ==
    IF slices = 0 THEN ExpmMatVec(MatScale(op.matrix, t), v)
    ELSE [routine |-> "sliced_expm_matvec", generator |-> MatScale(op.matrix, t),
          vec |-> v, num_time_slices |-> slices]

\* QuantumRegister(n)
QuantumRegister(n) == [size |-> n]

\* state_in.construct_circuit('vector')
ConstructVector(st) == st.state_vector

\* state_in.construct_circuit('circuit', qr): a circuit of one sub-circuit
ConstructCircuit(st, qr) ==
    << [part |-> "initial_state", state_vector |-> st.state_vector, register |-> qr] >>

\* qubitOp.evolve(None, t, 'circuit', slices, quantum_registers=qr,
\*                expansion_mode=mode, expansion_order=order)
EvolveCircuit(op, t, slices, qr, mode, order) ==
    << [part |-> "evolution", matrix |-> op.matrix, evo_time |-> t,
        num_time_slices |-> slices, expansion_mode |-> mode,
        expansion_order |-> order, register |-> qr] >>

\* (variant: the evolution sub-circuit put in front of the initial state)
CircuitPrepend(c, other) == other \o c

\* circuit += other
CircuitAppend(c, other) == c \o other

\* np.testing.assert_allclose(a, b): two results of the same routine on the
\* same arguments are equal and pass; for any other pair the outcome is open.
AllCloseOutcomes(a, b) == IF a = b THEN {TRUE} ELSE {TRUE, FALSE}

\* np.asarray(q_execute(c, backend).result().get_statevector(c)), as a term
Statevector(c, be) == [routine |-> "statevector", circuit |-> c, backend |-> be]

\* state_fidelity(a, b), as a term
StateFidelity(a, b) == [routine |-> "state_fidelity", first |-> a, second |-> b]

\* ---- the kernel ----
CodeCells == 1 .. NumCodeCells

\* (variant: the execution cell is run a second time before moving on)
NextCellRetry(c) == IF c = 5 /\ execution_count = 4 THEN 5 ELSE c + 1

\* the cell Run All runs after cell c
NextCell(c) == c + 1

\* bookkeeping common to every cell that returns: the counter advances, the
\* cell records it, and the kernel moves to the next cell
Returned(c) ==
    /\ execution_count' = execution_count + 1
    /\ cell_count' = [cell_count EXCEPT ![c] = Some(execution_count + 1)]
    /\ pc' = NextCell(c)
    /\ run_state' = IF NextCell(c) > NumCodeCells THEN "finished" ELSE "running"

Init ==
    /\ pc = 1
    /\ run_state = "running"
    /\ execution_count = 0
    /\ cell_count = [c \in CodeCells |-> None]
    /\ stdout = << >>
    /\ num_qubits = None /\ evo_time = None /\ temp = None /\ h1 = None
    /\ qubitOp = None /\ state_in = None
    /\ state_in_vec = None /\ groundtruth = None
    /\ groundtruth_evolution = None
    /\ quantum_registers = None /\ circuit = None
    /\ backend = None /\ job = None /\ circuit_execution_result = None

\* cell 1: problem generation
Cell1 ==
    /\ run_state = "running" /\ pc = 1
    /\ \E t \in RandomMatrices(Pow2(NUM_QUBITS)), v \in RandomStates(Pow2(NUM_QUBITS)) :
          LET h == MatAdd(t, Transpose(t)) IN
          /\ num_qubits' = Some(NUM_QUBITS)
          /\ evo_time' = Some(EVO_TIME)
          /\ temp' = Some(t)
          /\ h1' = Some(h)
          /\ qubitOp' = Some(Operator(h))
          /\ state_in' = Some(Custom(NUM_QUBITS, v))
    /\ Returned(1)
    /\ UNCHANGED << stdout, state_in_vec, groundtruth, groundtruth_evolution,
                    quantum_registers, circuit, backend, job,
                    circuit_execution_result >>

\* cell 2: reference solution by direct exponentiation
Cell2 ==
    /\ run_state = "running" /\ pc = 2
    /\ LET v == ConstructVector(Val(state_in))
           g == GroundTruth(Val(h1), Val(evo_time), v) IN
       /\ state_in_vec' = Some(v)
       /\ groundtruth' = Some(g)
       /\ stdout' = Append(stdout, [text |-> "directly computed groundtruth", value |-> g])
    /\ Returned(2)
    /\ UNCHANGED << num_qubits, evo_time, temp, h1, qubitOp, state_in,
                    groundtruth_evolution, quantum_registers, circuit,
                    backend, job, circuit_execution_result >>

\* cell 3: the library's evolution routine and the cross-check
Cell3 ==
    /\ run_state = "running" /\ pc = 3
    /\ LET e == EvolveMatrix(Val(qubitOp), Val(state_in_vec), Val(evo_time), MATRIX_SLICES) IN
       /\ groundtruth_evolution' = Some(e)
       /\ stdout' = Append(stdout, [text |-> "groundtruth by the Dynamics algorithm", value |-> e])
       /\ \E ok \in AllCloseOutcomes(e, Val(groundtruth)) :
             IF ok THEN Returned(3)
             ELSE /\ run_state' = "aborted"
                  /\ execution_count' = execution_count + 1
                  /\ cell_count' = [cell_count EXCEPT ![3] = Some(execution_count + 1)]
                  /\ pc' = pc
    /\ UNCHANGED << num_qubits, evo_time, temp, h1, qubitOp, state_in,
                    state_in_vec, groundtruth, quantum_registers, circuit,
                    backend, job, circuit_execution_result >>

\* cell 4: circuit construction
Cell4 ==
    /\ run_state = "running" /\ pc = 4
    /\ LET qr == QuantumRegister(Val(qubitOp).num_qubits)
           c0 == ConstructCircuit(Val(state_in), qr)
           c1 == CircuitAppend(c0, EvolveCircuit(Val(qubitOp), Val(evo_time), CIRCUIT_SLICES,
                                                 qr, "suzuki", EXPANSION_ORDER)) IN
       /\ quantum_registers' = Some(qr)
       /\ circuit' = Some(c1)
    /\ Returned(4)
    /\ UNCHANGED << stdout, num_qubits, evo_time, temp, h1, qubitOp, state_in,
                    state_in_vec, groundtruth, groundtruth_evolution,
                    backend, job, circuit_execution_result >>

\* (variant: executing the circuit adds to it in place)
Cell5InPlace ==
    /\ run_state = "running" /\ pc = 5
    /\ LET be == "statevector_simulator"
           r  == Statevector(Val(circuit), be) IN
       /\ backend' = Some(be)
       /\ job' = Some([circuit |-> Val(circuit), backend |-> be])
       /\ circuit_execution_result' = Some(r)
       /\ circuit' = Some(Val(circuit) \o << [part |-> "snapshot"] >>)
       /\ stdout' = Append(stdout, [text |-> "result from executing the Dynamics circuit", value |-> r])
    /\ Returned(5)
    /\ UNCHANGED << num_qubits, evo_time, temp, h1, qubitOp, state_in,
                    state_in_vec, groundtruth, groundtruth_evolution,
                    quantum_registers >>

\* cell 5: circuit execution (q_execute and job.result() block until done)
Cell5 ==
    /\ run_state = "running" /\ pc = 5
    /\ LET be == "statevector_simulator"
           r  == Statevector(Val(circuit), be) IN
       /\ backend' = Some(be)
       /\ job' = Some([circuit |-> Val(circuit), backend |-> be])
       /\ circuit_execution_result' = Some(r)
       /\ stdout' = Append(stdout, [text |-> "result from executing the Dynamics circuit", value |-> r])
    /\ Returned(5)
    /\ UNCHANGED << num_qubits, evo_time, temp, h1, qubitOp, state_in,
                    state_in_vec, groundtruth, groundtruth_evolution,
                    quantum_registers, circuit >>

\* cell 6: fidelity comparison
Cell6 ==
    /\ run_state = "running" /\ pc = 6
    /\ stdout' = Append(stdout, [text |-> "Fidelity",
                                 value |-> StateFidelity(Val(groundtruth),
                                                         Val(circuit_execution_result))])
    /\ Returned(6)
    /\ UNCHANGED << num_qubits, evo_time, temp, h1, qubitOp, state_in,
                    state_in_vec, groundtruth, groundtruth_evolution,
                    quantum_registers, circuit, backend, job,
                    circuit_execution_result >>

Next == Cell1 \/ Cell2 \/ Cell3 \/ Cell4 \/ Cell5 \/ Cell6

Spec == Init /\ [][Next]_vars

\* Run All: the kernel runs the pending cell; every call in a cell blocks and returns
FairSpec == Spec /\ WF_vars(Next)

\* ---------------------------------------------------------------------------
\* Properties
\* ---------------------------------------------------------------------------

\* the stage a code cell belongs to: 1 problem generation, 2 reference solution
\* with cross-check (cells 2 and 3), 3 circuit construction, 4 circuit
\* execution, 5 fidelity comparison
StageOf == << 1, 2, 2, 3, 4, 5 >>

\* what each cell leaves in the namespace when it returns
ResultOf(c) ==
    CASE c = 1 -> Bound(h1) /\ Bound(qubitOp) /\ Bound(state_in) /\ Bound(evo_time)
      [] c = 2 -> Bound(state_in_vec) /\ Bound(groundtruth)
      [] c = 3 -> Bound(groundtruth_evolution)
      [] c = 4 -> Bound(quantum_registers) /\ Bound(circuit)
      [] c = 5 -> Bound(circuit_execution_result)
      [] c = 6 -> Len(stdout) > 0 /\ stdout[Len(stdout)].text = "Fidelity"

C3_OrderInv ==
    /\ run_state # "aborted"
    /\ run_state = "finished" \/ ENABLED Next
    /\ run_state = "finished" <=> pc = NumCodeCells + 1
    /\ pc \in 1 .. (NumCodeCells + 1)
    /\ execution_count = pc - 1
    /\ \A c \in CodeCells :
          /\ Bound(cell_count[c]) <=> c < pc
          /\ Bound(cell_count[c]) => Val(cell_count[c]) = c
          /\ c < pc => ResultOf(c)
          /\ c >= pc => ~ResultOf(c)

C3_StepOrder ==
    /\ pc' = pc + 1
    /\ StageOf[pc] <= (IF pc' <= NumCodeCells THEN StageOf[pc'] ELSE 6)
    /\ execution_count' = execution_count + 1
    /\ \A c \in CodeCells : Bound(cell_count[c]) => cell_count'[c] = cell_count[c]

C3_Finished ==
    /\ run_state = "finished"
    /\ \A c \in CodeCells : cell_count[c] = Some(c)
    /\ Len(stdout) = 4
    /\ stdout[4].text = "Fidelity"

C3_ReachesPrint == <>C3_Finished

C4_NoMutation ==
    [][ /\ Bound(h1) => h1' = h1
        /\ Bound(state_in_vec) => state_in_vec' = state_in_vec
        /\ Bound(evo_time) => evo_time' = evo_time
        /\ Bound(groundtruth) => groundtruth' = groundtruth
        /\ Bound(circuit) => circuit' = circuit
        /\ Bound(circuit_execution_result) =>
              circuit_execution_result' = circuit_execution_result ]_vars

C4_Witness ==
    /\ run_state = "finished"
    /\ Bound(h1) /\ Bound(state_in_vec) /\ Bound(evo_time) /\ Bound(groundtruth)
    /\ Bound(circuit) /\ Bound(circuit_execution_result)
    /\ Len(Val(circuit)) = 2

\* C5: h1 = temp + temp.T is symmetric and is 2^num_qubits by 2^num_qubits.
C5_Symmetric ==
    Bound(h1) =>
        LET h == Val(h1)
            D == Idx(Pow2(Val(num_qubits))) IN
        /\ DOMAIN h = D
        /\ \A i \in D : DOMAIN h[i] = D
        /\ \A i, j \in D : h[i][j] = h[j][i]

C5_Witness ==
    /\ Bound(h1) /\ Bound(temp)
    /\ \E i, j \in DOMAIN Val(temp) : Val(temp)[i][j] # Val(temp)[j][i]
    /\ Cardinality(DOMAIN Val(h1)) = 4

\* C10: the executed circuit is the initial-state sub-circuit followed by the
\* evolution sub-circuit on one register of qubitOp.num_qubits qubits, built
\* from the state_in, h1 and evo_time that produced the ground truth, and these
\* are the two arguments of the fidelity comparison.
C10_SameInstance ==
    /\ Bound(circuit) =>
          LET c == Val(circuit) IN
          /\ Len(c) = 2
          /\ c[1].part = "initial_state" /\ c[2].part = "evolution"
          /\ c[1].register = Val(quantum_registers)
          /\ c[2].register = Val(quantum_registers)
          /\ Val(quantum_registers).size = Val(qubitOp).num_qubits
          /\ Val(quantum_registers).size = Val(num_qubits)
          /\ c[1].state_vector = Val(state_in).state_vector
          /\ c[2].matrix = Val(h1)
          /\ c[2].evo_time = Val(evo_time)
          /\ Val(groundtruth).generator = MatScale(c[2].matrix, c[2].evo_time)
          /\ Val(groundtruth).vec = c[1].state_vector
    /\ Bound(circuit_execution_result) =>
          Val(circuit_execution_result).circuit = Val(circuit)
    /\ run_state = "finished" =>
          LET f == stdout[Len(stdout)].value IN
          /\ f.first = Val(groundtruth)
          /\ f.second = Val(circuit_execution_result)

C10_Witness ==
    /\ run_state = "finished"
    /\ stdout[Len(stdout)].text = "Fidelity"
    /\ stdout[Len(stdout)].value.second.circuit = Val(circuit)
    /\ \E i, j \in DOMAIN Val(h1) : Val(h1)[i][j] # 0

====
